---- MODULE Spec2Model ----
(***************************************************************************)
(* State-machine model of the dubbing back end:                            *)
(*   - the job routes (submit, download) of src/src/routes/dub.route.ts,   *)
(*   - the pipeline dubVideo and its helpers of src/unnamed/part_001       *)
(*     (services/dub.service), one action per suspension point (await).    *)
(* Everything between two awaits runs without interleaving (one Node.js    *)
(* event-loop turn, the promise reactions included), so it is one action.  *)
(* Times are integers in milliseconds.                                     *)
(***************************************************************************)
EXTENDS Integers, Sequences, FiniteSets, TLC

(* ---------------------------- bounds ---------------------------------- *)
NumJobs == 2
NumRequests == 2
MaxSegs == 3
MaxTimelineSegs == 2
MaxVoiceSegs == 6
MaxTick == 2
MsPerTick == 5
NumStreams == 1
MaxJobSegs == 1
MaxStreamSegs == 1
MaxTextLen == 2
MaxEmotionSegs == 1
MaxUnlabelledSegs == 3

Jobs == 1..NumJobs
Requests == 1..NumRequests
Streams == 1..NumStreams

(* ------------------------ program constants --------------------------- *)
maleVoices == <<"onyx", "nova", "shimmer", "ballad">>
femaleVoices == <<"alloy", "verse", "fable", "coral">>
FAILED == 0 - 1
RmsThresholdTenths == 0 - 125

VARIABLES
  progressMap,    \* job id -> percent (entries exist only for keys in DOMAIN)
  outputMap,      \* job id -> output file
  files,          \* the temporary files that exist on disk
  pc,             \* per job: the await dubVideo is suspended at
  segments,       \* per job: transcription.segments
  i,              \* per job: loop index (0-based, as in the code)
  lastEnd,        \* per job
  timeline,       \* per job: the clip files pushed so far
  speakerGender,  \* per job: speaker key -> gender
  speakerIndex,   \* per job: speaker key -> next rotation index
  req,            \* per download request: its position and its answer
  written,        \* history: per job, the values written to its progress entry
  voiceLog,       \* history: per job, per processed segment, the voice passed to speak
  silenceArg,     \* history: per job, loop index -> the -t argument (ms) of its silence clip
  calls,          \* history: per job, the external calls that settled, in order
                  \* (and the safeUnlink that threw, if one did)
  detectLog,      \* history: per job, the runs of detectGender: segment, key, outcome
  emotionLog,     \* history: per job, per processed segment, the emotion passed to speak
  stream          \* per progress stream: its job, whether its timer runs, what it emitted

vars == <<progressMap, outputMap, files, pc, segments, i, lastEnd, timeline,
          speakerGender, speakerIndex, req, written, voiceLog, silenceArg, calls,
          detectLog, emotionLog, stream>>

jobLocals == <<segments, i, lastEnd, timeline, speakerGender, speakerIndex>>
ghosts == <<voiceLog, silenceArg>>
\* What only detectGender's run, the emotion heuristic and the progress route touch.
others == <<detectLog, emotionLog, stream>>

(* ------------------------------ files --------------------------------- *)
File(kind, j, n) == [kind |-> kind, job |-> j, idx |-> n]
uploadFile(j) == File("upload", j, 0)
extractedAudio(j) == File("extracted", j, 0)
dubbedAudio(j) == File("dubbed", j, 0)
outputVideo(j) == File("output", j, 0)
listFile(j) == File("list", j, 0)
silenceFile(j, n) == File("silence", j, n)
segmentAudio(j, n) == File("segclip", j, n)
spokenFile(j, n) == File("spoken", j, n)

NoFile == File("none", 0, 0)

EmptyMap == [x \in {} |-> 0]
Put(m, k, v) == (k :> v) @@ m
Remove(m, k) == [x \in DOMAIN m \ {k} |-> m[x]]
Has(m, k) == k \in DOMAIN m

(* --------------------------- pure helpers ----------------------------- *)
\* Mutant of toFixed2: the duration is cut to hundredths instead of rounded.
toFixed2Truncating(ms) == (ms \div 10) * 10

\* Number.prototype.toFixed(2) of a positive duration given in ms: the nearest
\* hundredth of a second, the larger one on a tie; result in ms.
toFixed2(ms) == ((ms + 5) \div 10) * 10

RECURSIVE SumSeq(_)
SumSeq(s) == IF s = <<>> THEN 0 ELSE Head(s) + SumSeq(Tail(s))

\* detectGender: res is the outcome of the astats run, [ok, rms] with rms the
\* matched "RMS level dB" values in tenths of a dB.
detectGender(res) ==
  IF ~res.ok THEN "female"
  ELSE IF Len(res.rms) > 0
       THEN IF SumSeq(res.rms) < RmsThresholdTenths * Len(res.rms)
            THEN "female" ELSE "male"
       ELSE "male"

\* Mutant of assignVoice: the rotation index is ignored.
assignVoiceNoRotation(gender, index) ==
  IF gender = "male" THEN maleVoices[1] ELSE femaleVoices[1]

assignVoice(gender, index) ==
  IF gender = "male"
  THEN maleVoices[(index % Len(maleVoices)) + 1]
  ELSE femaleVoices[(index % Len(femaleVoices)) + 1]

\* Mutant of speakerKey: the speaker label is ignored.
speakerKeyPerSegment(seg, n) == "segment_" \o ToString(n)

\* Mutant of speakerKey: one fallback key for all unlabelled segments.
speakerKeyShared(seg, n) ==
  IF seg.speaker # "" THEN seg.speaker ELSE "segment"

speakerKey(seg, n) ==
  IF seg.speaker # "" THEN seg.speaker ELSE "segment_" \o ToString(n)

\* A text is the sequence of its characters; String.prototype.includes.
includes(text, ch) == \E n \in 1..Len(text) : text[n] = ch

\* Mutant of emotionOf: the question mark is tested first.
emotionOfQuestionFirst(text) ==
  IF includes(text, "?") THEN "firm"
  ELSE IF includes(text, "!") THEN "energetic"
  ELSE "neutral"

\* Lines 228-230: the emotion heuristic on the untranslated text.
emotionOf(text) ==
  IF includes(text, "!") THEN "energetic"
  ELSE IF includes(text, "?") THEN "firm"
  ELSE "neutral"

\* Mutant of loopProgress: the fraction counts the segments left, not done.
loopProgressReversed(n, total) == 15 + (((total - n) * 55) \div total)

loopProgress(n, total) == 15 + ((n * 55) \div total)

(* ------------------------------ inputs -------------------------------- *)
PlainText == <<"a">>
Ticks == {t * MsPerTick : t \in 0..MaxTick}
SegsOver(T, S, X) ==
  {s \in [start : T, end : T, speaker : S, text : X] : s.start <= s.end}
SeqsUpTo(S, n) == UNION {[1..k -> S] : k \in 0..n}

AstatsResults ==
  { [ok |-> FALSE, rms |-> <<>>], [ok |-> TRUE, rms |-> <<>>],
    [ok |-> TRUE, rms |-> <<0 - 200, 0 - 100>>],
    [ok |-> TRUE, rms |-> <<0 - 50>>] }

(* ------------------------------ Init ---------------------------------- *)
Init ==
  /\ progressMap = EmptyMap
  /\ outputMap = EmptyMap
  /\ files = {}
  /\ pc = [j \in Jobs |-> "none"]
  /\ segments = [j \in Jobs |-> <<>>]
  /\ i = [j \in Jobs |-> 0]
  /\ lastEnd = [j \in Jobs |-> 0]
  /\ timeline = [j \in Jobs |-> <<>>]
  /\ speakerGender = [j \in Jobs |-> EmptyMap]
  /\ speakerIndex = [j \in Jobs |-> EmptyMap]
  /\ req = [r \in Requests |->
              [state |-> "idle", job |-> 0, file |-> NoFile, resp |-> "none"]]
  /\ written = [j \in Jobs |-> <<>>]
  /\ voiceLog = [j \in Jobs |-> <<>>]
  /\ silenceArg = [j \in Jobs |-> EmptyMap]
  /\ calls = [j \in Jobs |-> <<>>]
  /\ detectLog = [j \in Jobs |-> <<>>]
  /\ emotionLog = [j \in Jobs |-> <<>>]
  /\ stream = [s \in Streams |-> [state |-> "idle", job |-> 0, emitted |-> <<>>]]

(* ------------------------- tracker writes ----------------------------- *)
\* progressMap.set(jobId, v) for each v of vals in turn (vals is not empty).
Writes(j, vals) ==
  /\ progressMap' = Put(progressMap, j, vals[Len(vals)])
  /\ written' = [written EXCEPT ![j] = @ \o vals]

\* An awaited external call of dubVideo settled, fulfilled (ok) or rejected.
Called(j, name, ok) ==
  calls' = [calls EXCEPT ![j] = Append(@, [call |-> name, ok |-> ok])]

\* Mutant of Rejected: the rejection is not turned into a tracker write.
RejectedUnrecorded(j) ==
  /\ pc' = [pc EXCEPT ![j] = "failed"]
  /\ UNCHANGED <<progressMap, written>>

\* The same, followed by a safeUnlink that threw when unlinkOk is FALSE.
CalledThenUnlink(j, name, ok, unlinkOk) ==
  calls' = [calls EXCEPT ![j] =
    Append(@, [call |-> name, ok |-> ok])
      \o (IF unlinkOk THEN <<>> ELSE <<[call |-> "unlink", ok |-> FALSE]>>)]

\* The promise of dubVideo rejects: the .catch of the submit handler runs.
Rejected(j) ==
  /\ Writes(j, <<FAILED>>)
  /\ pc' = [pc EXCEPT ![j] = "failed"]

\* Where dubVideo suspends next when it reaches the loop head with index n and
\* cursor le: the silence call of segment n when its gap is positive, else its
\* translate call; after the last segment, the ffmpeg call of concatAudio.
gapOf(seg, le) == seg.start - le
\* Mutant of loopHeadPc: the loop ends one segment early.
loopHeadPcEarlyExit(segs, n, le) ==
  IF n + 1 < Len(segs)
  THEN IF gapOf(segs[n + 1], le) > 0 THEN "silence" ELSE "translate"
  ELSE "concat"
loopHeadPc(segs, n, le) ==
  IF n < Len(segs)
  THEN IF gapOf(segs[n + 1], le) > 0 THEN "silence" ELSE "translate"
  ELSE "concat"
\* What the loop exit does before it suspends in concatAudio.
exitWrites(segs, n) == IF n < Len(segs) THEN <<>> ELSE <<75>>
exitFiles(j, segs, n) == IF n < Len(segs) THEN {} ELSE {listFile(j)}

(* ------------------------- POST /dub (submit) -------------------------- *)
\* Mutant of Submit: the progress entry is not created before dubVideo starts.
SubmitWithoutCreate(j) ==
  /\ pc[j] = "none"
  /\ files' = files \cup {uploadFile(j)}
  /\ Writes(j, <<5>>)
  /\ pc' = [pc EXCEPT ![j] = "extract"]
  /\ UNCHANGED <<outputMap, jobLocals, req, ghosts, calls, others>>

Submit(j) ==
  /\ pc[j] = "none"
  /\ files' = files \cup {uploadFile(j)}
  /\ Writes(j, <<0, 5>>)
  /\ pc' = [pc EXCEPT ![j] = "extract"]
  /\ UNCHANGED <<outputMap, jobLocals, req, ghosts, calls, others>>

(* ------------------------------ dubVideo ------------------------------ *)
ExtractDone(j, ok) ==
  /\ pc[j] = "extract"
  /\ Called(j, "extract", ok)
  /\ IF ok
     THEN /\ files' = files \cup {extractedAudio(j)}
          /\ Writes(j, <<15>>)
          /\ pc' = [pc EXCEPT ![j] = "transcribe"]
     ELSE /\ Rejected(j)
          /\ UNCHANGED files
  /\ UNCHANGED <<outputMap, jobLocals, req, ghosts, others>>

TranscribeDone(j, ok, segs) ==
  /\ pc[j] = "transcribe"
  /\ Called(j, "transcribe", ok)
  /\ IF ok
     THEN /\ segments' = [segments EXCEPT ![j] = segs]
          /\ pc' = [pc EXCEPT ![j] = loopHeadPc(segs, 0, 0)]
          /\ files' = files \cup exitFiles(j, segs, 0)
          /\ IF exitWrites(segs, 0) = <<>>
             THEN UNCHANGED <<progressMap, written>>
             ELSE Writes(j, exitWrites(segs, 0))
     ELSE /\ Rejected(j)
          /\ UNCHANGED <<files, segments>>
  /\ UNCHANGED <<outputMap, i, lastEnd, timeline, speakerGender, speakerIndex,
                 req, ghosts, others>>

SilenceDone(j, ok) ==
  /\ pc[j] = "silence"
  /\ Called(j, "silence", ok)
  /\ IF ok
     THEN /\ files' = files \cup {silenceFile(j, i[j])}
          /\ timeline' = [timeline EXCEPT ![j] = Append(@, silenceFile(j, i[j]))]
          /\ silenceArg' = [silenceArg EXCEPT ![j] =
               Put(@, i[j], toFixed2(gapOf(segments[j][i[j] + 1], lastEnd[j])))]
          /\ pc' = [pc EXCEPT ![j] = "translate"]
          /\ UNCHANGED <<progressMap, written>>
     ELSE /\ Rejected(j)
          /\ UNCHANGED <<files, timeline, silenceArg>>
  /\ UNCHANGED <<outputMap, segments, i, lastEnd, speakerGender, speakerIndex,
                 req, voiceLog, others>>

\* Lines 224-225: the rotation index of the key, and the voice of this segment.
rotationIndex(j, key) ==
  IF Has(speakerIndex[j], key) /\ speakerIndex[j][key] # 0
  THEN speakerIndex[j][key] ELSE 0
AssignAndSpeak(j, key, gender) ==
  /\ speakerIndex' = [speakerIndex EXCEPT ![j] = Put(@, key, rotationIndex(j, key) + 1)]
  /\ voiceLog' = [voiceLog EXCEPT ![j] =
       Append(@, assignVoice(gender, rotationIndex(j, key)))]
  /\ emotionLog' = [emotionLog EXCEPT ![j] =
       Append(@, emotionOf(segments[j][i[j] + 1].text))]
  /\ pc' = [pc EXCEPT ![j] = "speak"]

TranslateDone(j, ok) ==
  /\ pc[j] = "translate"
  /\ Called(j, "translate", ok)
  /\ LET key == speakerKey(segments[j][i[j] + 1], i[j]) IN
     IF ok
     THEN /\ IF Has(speakerGender[j], key)
             THEN AssignAndSpeak(j, key, speakerGender[j][key])
             ELSE /\ pc' = [pc EXCEPT ![j] = "clip"]
                  /\ UNCHANGED <<speakerIndex, voiceLog, emotionLog>>
          /\ UNCHANGED <<progressMap, written>>
     ELSE /\ Rejected(j)
          /\ UNCHANGED <<speakerIndex, voiceLog, emotionLog>>
  /\ UNCHANGED <<outputMap, files, segments, i, lastEnd, timeline, speakerGender,
                 req, silenceArg, detectLog, stream>>

ClipDone(j, ok) ==
  /\ pc[j] = "clip"
  /\ Called(j, "clip", ok)
  /\ IF ok
     THEN /\ files' = files \cup {segmentAudio(j, i[j])}
          /\ pc' = [pc EXCEPT ![j] = "detect"]
          /\ UNCHANGED <<progressMap, written>>
     ELSE /\ Rejected(j)
          /\ UNCHANGED files
  /\ UNCHANGED <<outputMap, jobLocals, req, ghosts, others>>

\* Mutant of DetectDone: a failed measurement is rethrown instead of caught.
DetectDoneRethrows(j, res, unlinkOk) ==
  /\ pc[j] = "detect"
  /\ CalledThenUnlink(j, "astats", res.ok, ~res.ok \/ unlinkOk)
  /\ LET key == speakerKey(segments[j][i[j] + 1], i[j])
         gender == detectGender(res) IN
     IF res.ok
     THEN /\ speakerGender' = [speakerGender EXCEPT ![j] = Put(@, key, gender)]
          /\ detectLog' = [detectLog EXCEPT ![j] =
               Append(@, [idx |-> i[j], key |-> key, res |-> res, gender |-> gender])]
          /\ IF unlinkOk
             THEN /\ files' = files \ {segmentAudio(j, i[j])}
                  /\ AssignAndSpeak(j, key, gender)
                  /\ UNCHANGED <<progressMap, written>>
             ELSE /\ Rejected(j)
                  /\ UNCHANGED <<files, speakerIndex, voiceLog, emotionLog>>
     ELSE /\ Rejected(j)
          /\ UNCHANGED <<files, speakerGender, detectLog, speakerIndex, voiceLog,
                         emotionLog>>
  /\ UNCHANGED <<outputMap, segments, i, lastEnd, timeline, req, silenceArg, stream>>

\* detectGender settles (it never rejects), the gender is cached, then
\* safeUnlink(segmentAudio), which throws when unlinkOk is FALSE.
DetectDone(j, res, unlinkOk) ==
  /\ pc[j] = "detect"
  /\ CalledThenUnlink(j, "astats", res.ok, unlinkOk)
  /\ LET key == speakerKey(segments[j][i[j] + 1], i[j])
         gender == detectGender(res) IN
     /\ speakerGender' = [speakerGender EXCEPT ![j] = Put(@, key, gender)]
     /\ detectLog' = [detectLog EXCEPT ![j] =
          Append(@, [idx |-> i[j], key |-> key, res |-> res, gender |-> gender])]
     /\ IF unlinkOk
        THEN /\ files' = files \ {segmentAudio(j, i[j])}
             /\ AssignAndSpeak(j, key, gender)
             /\ UNCHANGED <<progressMap, written>>
        ELSE /\ Rejected(j)
             /\ UNCHANGED <<files, speakerIndex, voiceLog, emotionLog>>
  /\ UNCHANGED <<outputMap, segments, i, lastEnd, timeline, req, silenceArg, stream>>

SpeakDone(j, ok) ==
  /\ pc[j] = "speak"
  /\ Called(j, "speak", ok)
  /\ LET segs == segments[j]
         seg == segs[i[j] + 1]
         n == i[j] + 1 IN
     IF ok
     THEN /\ files' = files \cup {spokenFile(j, i[j])} \cup exitFiles(j, segs, n)
          /\ timeline' = [timeline EXCEPT ![j] = Append(@, spokenFile(j, i[j]))]
          /\ lastEnd' = [lastEnd EXCEPT ![j] = seg.end]
          /\ Writes(j, <<loopProgress(i[j], Len(segs))>> \o exitWrites(segs, n))
          /\ i' = [i EXCEPT ![j] = n]
          /\ pc' = [pc EXCEPT ![j] = loopHeadPc(segs, n, seg.end)]
     ELSE /\ Rejected(j)
          /\ UNCHANGED <<files, timeline, lastEnd, i>>
  /\ UNCHANGED <<outputMap, segments, speakerGender, speakerIndex, req, ghosts, others>>

\* The ffmpeg call of concatAudio settles; then safeUnlink(list).
ConcatDone(j, ok, unlinkOk) ==
  /\ pc[j] = "concat"
  /\ CalledThenUnlink(j, "concat", ok, ~ok \/ unlinkOk)
  /\ IF ok /\ unlinkOk
     THEN /\ files' = (files \cup {dubbedAudio(j)}) \ {listFile(j)}
          /\ Writes(j, <<90>>)
          /\ pc' = [pc EXCEPT ![j] = "remix"]
     ELSE /\ files' = IF ok THEN files \cup {dubbedAudio(j)} ELSE files
          /\ Rejected(j)
  /\ UNCHANGED <<outputMap, jobLocals, req, ghosts, others>>

\* Lines 268-270: safeUnlink of extractedAudio, dubbedAudio and every timeline
\* entry, in this order. An unlink that throws ends the cleanup: skipped is the
\* number of files at the end of the list that are not removed (0: none threw).
cleanupList(j) == <<extractedAudio(j), dubbedAudio(j)>> \o timeline[j]
unlinked(j, skipped) == {cleanupList(j)[n] : n \in 1..(Len(cleanupList(j)) - skipped)}

\* The remix settles; on success the result is published and the
\* intermediates are cleaned up, all in the same turn.
RemixDone(j, ok, skipped) ==
  /\ pc[j] = "remix"
  /\ CalledThenUnlink(j, "remix", ok, ~ok \/ skipped = 0)
  /\ skipped \in 0..Len(cleanupList(j))
  /\ IF ok
     THEN /\ outputMap' = Put(outputMap, j, outputVideo(j))
          /\ files' = (files \cup {outputVideo(j)}) \ unlinked(j, skipped)
          /\ IF skipped = 0
             THEN /\ Writes(j, <<100>>)
                  /\ pc' = [pc EXCEPT ![j] = "done"]
             ELSE /\ Writes(j, <<100, FAILED>>)
                  /\ pc' = [pc EXCEPT ![j] = "failed"]
     ELSE /\ skipped = 0
          /\ Rejected(j)
          /\ UNCHANGED <<outputMap, files>>
  /\ UNCHANGED <<jobLocals, req, ghosts, others>>

(* --------------------------- GET /download ---------------------------- *)
\* The handler: 404 without an output entry, else res.download is started.
DownloadStart(r, j) ==
  /\ req[r].state = "idle"
  /\ IF Has(outputMap, j)
     THEN req' = [req EXCEPT ![r] =
            [state |-> "sending", job |-> j, file |-> outputMap[j], resp |-> "none"]]
     ELSE req' = [req EXCEPT ![r] =
            [state |-> "done", job |-> j, file |-> NoFile, resp |-> "404"]]
  /\ UNCHANGED <<progressMap, outputMap, files, pc, jobLocals, written, ghosts, calls, others>>

\* res.download stats and opens the file in a later turn.
DownloadOpen(r) ==
  /\ req[r].state = "sending"
  /\ req' = [req EXCEPT ![r].state =
       IF req[r].file \in files THEN "streaming" ELSE "error"]
  /\ UNCHANGED <<progressMap, outputMap, files, pc, jobLocals, written, ghosts, calls, others>>

\* Mutant of downloadCallback: both registries are cleared, not one key of each.
downloadCallbackClearsAll(r, delivered) ==
  /\ files' = files \ {req[r].file}
  /\ outputMap' = EmptyMap
  /\ progressMap' = EmptyMap
  /\ req' = [req EXCEPT ![r].state = "done",
                        ![r].resp = IF delivered THEN "file" ELSE "error"]

\* The callback of res.download (lines 50-54), called when the transfer ends.
\* It ignores its error argument.
downloadCallback(r, delivered) ==
  /\ files' = files \ {req[r].file}
  /\ outputMap' = Remove(outputMap, req[r].job)
  /\ progressMap' = Remove(progressMap, req[r].job)
  /\ req' = [req EXCEPT ![r].state = "done",
                        ![r].resp = IF delivered THEN "file" ELSE "error"]

\* The transfer ends: completely (sent) when the file was opened and the
\* client took all of it, else with an error.
DownloadEnd(r, sent) ==
  /\ req[r].state \in {"streaming", "error"}
  /\ downloadCallback(r, sent /\ req[r].state = "streaming")
  /\ UNCHANGED <<pc, jobLocals, written, ghosts, calls, others>>

(* ------------------------ GET /progress/:id -------------------------- *)
\* The handler: the headers are set and the 1 s interval timer is started.
StreamOpen(s, j) ==
  /\ stream[s].state = "idle"
  /\ stream' = [stream EXCEPT ![s] = [state |-> "open", job |-> j, emitted |-> <<>>]]
  /\ UNCHANGED <<progressMap, outputMap, files, pc, jobLocals, req, written,
                 ghosts, calls, detectLog, emotionLog>>

\* progressMap.get(id) ?? 0
readProgress(j) == IF Has(progressMap, j) THEN progressMap[j] ELSE 0

\* One firing of the timer: the value is emitted (emitted keeps the last one),
\* and on a value >= 100 or < 0 the timer is cleared and the response ended.
StreamTick(s) ==
  /\ stream[s].state = "open"
  /\ LET progress == readProgress(stream[s].job) IN
     stream' = [stream EXCEPT
       ![s].emitted = <<progress>>,
       ![s].state = IF progress >= 100 \/ progress < 0 THEN "closed" ELSE "open"]
  /\ UNCHANGED <<progressMap, outputMap, files, pc, jobLocals, req, written,
                 ghosts, calls, detectLog, emotionLog>>

(* ------------------------- specifications ----------------------------- *)
\* The longest cleanup list of any transcription of the specifications below.
MaxCleanup == 2 + 2 * (MaxSegs + MaxTimelineSegs + MaxVoiceSegs)
Pipeline(j, Transcriptions) ==
  \/ Submit(j)
  \/ \E ok \in BOOLEAN : ExtractDone(j, ok)
  \/ \E ok \in BOOLEAN, segs \in Transcriptions : TranscribeDone(j, ok, segs)
  \/ \E ok \in BOOLEAN : SilenceDone(j, ok)
  \/ \E ok \in BOOLEAN : TranslateDone(j, ok)
  \/ \E ok \in BOOLEAN : ClipDone(j, ok)
  \/ \E res \in AstatsResults, unlinkOk \in BOOLEAN : DetectDone(j, res, unlinkOk)
  \/ \E ok \in BOOLEAN : SpeakDone(j, ok)
  \/ \E ok \in BOOLEAN, unlinkOk \in BOOLEAN : ConcatDone(j, ok, unlinkOk)
  \/ \E ok \in BOOLEAN, skipped \in 0..MaxCleanup : RemixDone(j, ok, skipped)

Downloads ==
  \/ \E r \in Requests, j \in Jobs : DownloadStart(r, j)
  \/ \E r \in Requests : DownloadOpen(r)
  \/ \E r \in Requests, sent \in BOOLEAN : DownloadEnd(r, sent)

\* One job taken through the whole pipeline, with download requests for it
\* and for ids that were never submitted.
SysSegs == SegsOver({0, MsPerTick}, {"A"}, {PlainText})
Next ==
  \/ Pipeline(1, SeqsUpTo(SysSegs, MaxSegs))
  \/ Downloads
Spec == Init /\ [][Next]_vars

\* One job and no downloads: the timeline over segments with every start and
\* end among Ticks (gaps positive, zero and negative).
TimelineSegs == SegsOver(Ticks, {""}, {PlainText})
NextTimeline == Pipeline(1, SeqsUpTo(TimelineSegs, MaxTimelineSegs))
SpecTimeline == Init /\ [][NextTimeline]_vars

\* One job and no downloads: the voices over the segments of two speakers.
VoiceSegs == SegsOver({MsPerTick}, {"A", "B"}, {PlainText})
NextVoices == Pipeline(1, SeqsUpTo(VoiceSegs, MaxVoiceSegs))
SpecVoices == Init /\ [][NextVoices]_vars

\* One job, the download requests and the progress streams, every timer
\* firing again and again.
ProgressStreams ==
  \/ \E s \in Streams, j \in Jobs : StreamOpen(s, j)
  \/ \E s \in Streams : StreamTick(s)
NextStreams ==
  \/ Pipeline(1, SeqsUpTo(SysSegs, MaxStreamSegs))
  \/ Downloads
  \/ ProgressStreams
SpecStreams ==
  Init /\ [][NextStreams]_vars /\ \A s \in Streams : WF_vars(StreamTick(s))

\* One job whose every pending external call settles (fulfilled or rejected).
NextLive == Pipeline(1, SeqsUpTo(SysSegs, MaxSegs))
SpecLive == Init /\ [][NextLive]_vars /\ WF_vars(NextLive)

\* One job and no downloads: segments over every text of up to MaxTextLen
\* characters among a letter, "!" and "?".
Chars == {"a", "!", "?"}
Texts == SeqsUpTo(Chars, MaxTextLen)
EmotionSegs == SegsOver({MsPerTick}, {"A"}, Texts)
NextEmotion == Pipeline(1, SeqsUpTo(EmotionSegs, MaxEmotionSegs))
SpecEmotion == Init /\ [][NextEmotion]_vars

\* One job and no downloads: segments without a speaker label, and one label.
UnlabelledSegs == SegsOver({MsPerTick}, {"", "A"}, {PlainText})
NextUnlabelled == Pipeline(1, SeqsUpTo(UnlabelledSegs, MaxUnlabelledSegs))
SpecUnlabelled == Init /\ [][NextUnlabelled]_vars

\* Every job running at once, with the download requests, over transcriptions
\* of at most MaxJobSegs segments.
NextJobs ==
  \/ \E j \in Jobs : Pipeline(j, SeqsUpTo(VoiceSegs, MaxJobSegs))
  \/ Downloads
SpecJobs == Init /\ [][NextJobs]_vars

(* ------------------------------ claims -------------------------------- *)
Last(s) == s[Len(s)]
Range(s) == {s[n] : n \in DOMAIN s}
Terminal(v) == v = 100 \/ v = FAILED
Published(j) == \E p \in 1..Len(calls[j]) : calls[j][p] = [call |-> "remix", ok |-> TRUE]

\* C1: the values written to a job's progress entry start with 0, stay within
\* 0..100 or are -1, and a later value is never below an earlier one unless
\* it is -1.
C1_ProgressMonotonic ==
  \A j \in Jobs :
    /\ written[j] # <<>> => written[j][1] = 0
    /\ \A p \in 1..Len(written[j]) :
         written[j][p] = FAILED \/ written[j][p] \in 0..100
    /\ \A p, q \in 1..Len(written[j]) :
         p < q => (written[j][q] = FAILED \/ written[j][p] <= written[j][q])
\* A run over three segments that reached 100.
C1_Witness ==
  /\ pc[1] = "done"
  /\ Len(segments[1]) = 3
  /\ Last(written[1]) = 100

\* C2 (as claimed): after a terminal value (100 or -1) was written to a job's
\* progress entry, no other value is written to it.
C2_TerminalIsFinal ==
  \A j \in Jobs : \A p, q \in 1..Len(written[j]) :
    (p < q /\ Terminal(written[j][p])) => written[j][q] = written[j][p]

\* C3: when one of the external steps of dubVideo fails, it is the last call
\* of the job, the progress entry is -1, -1 is the last value written and it
\* was written once, and dubVideo is over.
FailingStages ==
  {"extract", "transcribe", "silence", "translate", "clip", "speak", "concat", "remix"}
C3_StageFailureStops ==
  \A j \in Jobs : \A p \in 1..Len(calls[j]) :
    (calls[j][p].call \in FailingStages /\ ~calls[j][p].ok) =>
      /\ p = Len(calls[j])
      /\ pc[j] = "failed"
      /\ Has(progressMap, j) /\ progressMap[j] = FAILED
      /\ Last(written[j]) = FAILED
      /\ Cardinality({q \in 1..Len(written[j]) : written[j][q] = FAILED}) = 1
\* The synthesis of the second of three segments failed.
C3_Witness ==
  /\ Len(segments[1]) = 3
  /\ i[1] = 1
  /\ Last(calls[1]) = [call |-> "speak", ok |-> FALSE]
  /\ progressMap[1] = FAILED

\* C4 (as claimed): a job has an entry in the output registry only while its
\* progress entry is 100.
C4_OutputOnlyAtHundred ==
  \A j \in Jobs :
    Has(outputMap, j) => (Has(progressMap, j) /\ progressMap[j] = 100)

\* C5 (as claimed): for every job id at most one download request is answered
\* with the artifact.
C5_AtMostOneDelivery ==
  \A j \in Jobs :
    Cardinality({r \in Requests : req[r].job = j /\ req[r].resp = "file"}) <= 1

\* C6 (as claimed): a download request for a job id whose progress entry is
\* absent (unknown or retired) or not 100 (running or failed) is answered
\* with 404 and changes neither registry nor any file.
NoCompletedArtifact(j) == ~Has(progressMap, j) \/ progressMap[j] # 100
C6_NotFoundWithoutArtifact ==
  [][\A r \in Requests :
       (req[r].state = "idle" /\ req'[r].state # "idle"
          /\ NoCompletedArtifact(req'[r].job)) =>
         (req'[r].resp = "404" /\ UNCHANGED <<progressMap, outputMap, files>>)]_vars

\* C7 (as claimed): after a delivered download the job has neither registry
\* entry nor its output file; and a published job is retired (loses its output
\* entry) only by a delivered download, not by one whose transfer failed.
Delivered(j) == \E r \in Requests : req[r].job = j /\ req[r].resp = "file"
C7_RetiredOnlyByDelivery ==
  \A j \in Jobs :
    /\ Delivered(j) =>
         (~Has(progressMap, j) /\ ~Has(outputMap, j) /\ outputVideo(j) \notin files)
    /\ (Published(j) /\ ~Has(outputMap, j)) => Delivered(j)

\* C8 (as claimed): when a job has failed, none of its intermediate files
\* (extracted audio, dubbed audio, timeline clips, gender clip) exists.
IntermediateKinds == {"extracted", "dubbed", "silence", "spoken", "segclip"}
C8_FailureCleansUp ==
  \A j \in Jobs :
    pc[j] = "failed" => ~\E f \in files : f.job = j /\ f.kind \in IntermediateKinds

\* C9 (as claimed): the timeline holds, for each processed segment in order,
\* its speech clip, preceded by one silence clip exactly when the gap to the
\* end of the previous segment (0 before the first) is positive, and that
\* silence clip lasts exactly the gap.
prevEnd(segs, n) == IF n = 0 THEN 0 ELSE segs[n].end
gapAt(segs, n) == segs[n + 1].start - prevEnd(segs, n)
RECURSIVE expectedTimeline(_, _, _)
expectedTimeline(j, segs, n) ==
  IF n = 0 THEN <<>>
  ELSE expectedTimeline(j, segs, n - 1)
         \o (IF gapAt(segs, n - 1) > 0 THEN <<silenceFile(j, n - 1)>> ELSE <<>>)
         \o <<spokenFile(j, n - 1)>>
\* The timeline while dubVideo is inside iteration i, after its silence step.
inIteration(j) ==
  expectedTimeline(j, segments[j], i[j])
    \o (IF gapAt(segments[j], i[j]) > 0 THEN <<silenceFile(j, i[j])>> ELSE <<>>)
TimelineShape(j) ==
  /\ pc[j] \in {"concat", "remix", "done"} =>
       timeline[j] = expectedTimeline(j, segments[j], Len(segments[j]))
  /\ pc[j] = "silence" => timeline[j] = expectedTimeline(j, segments[j], i[j])
  /\ pc[j] \in {"translate", "clip", "detect", "speak"} => timeline[j] = inIteration(j)
  /\ \A n \in 0..(Len(segments[j]) - 1) :
       Has(silenceArg[j], n) <=> (silenceFile(j, n) \in Range(timeline[j]))
segmentsBefore(segs, p) ==
  Cardinality({q \in 1..(p - 1) : segs[q].speaker = segs[p].speaker})
poolOf(gender) == IF gender = "male" THEN maleVoices ELSE femaleVoices
C10_VoiceRotation ==
  \A j \in Jobs : \A p \in 1..Len(voiceLog[j]) :
    LET seg == segments[j][p] IN
    seg.speaker # "" =>
      /\ Has(speakerGender[j], seg.speaker)
      /\ voiceLog[j][p] =
           poolOf(speakerGender[j][seg.speaker])[(segmentsBefore(segments[j], p) % 4) + 1]
\* The fifth segment of speaker A, after a segment of speaker B, gets the
\* first voice of the pool again.
C10_Witness ==
  /\ Len(voiceLog[1]) = 6
  /\ \E q \in 1..5 : segments[1][q].speaker = "B"
  /\ segments[1][6].speaker = "A"
  /\ segmentsBefore(segments[1], 6) = 4
  /\ voiceLog[1][6] = poolOf(speakerGender[1]["A"])[1]

\* C13 (as claimed): once a terminal value was written for a job, every stream
\* open on it closes eventually; and a closed stream emitted a terminal value
\* last.
ReachedTerminal(j) == j \in Jobs /\ \E p \in 1..Len(written[j]) : Terminal(written[j][p])
C13_StreamsClose ==
  /\ \A s \in Streams :
       (stream[s].state = "open" /\ ReachedTerminal(stream[s].job))
         ~> (stream[s].state = "closed")
  /\ [](\A s \in Streams :
         stream[s].state = "closed" =>
           (stream[s].emitted[1] >= 100 \/ stream[s].emitted[1] < 0))

\* C11: for every speaker label of a processed segment, the segment clip is
\* extracted and detectGender run once, at the first segment with that label,
\* and every segment of the label is voiced in the gender found then.
Min(a, b) == IF a <= b THEN a ELSE b
labelsUpTo(segs, n) == {segs[p].speaker : p \in 1..n} \ {""}
firstWith(segs, label) ==
  CHOOSE p \in 1..Len(segs) :
    segs[p].speaker = label /\ \A q \in 1..(p - 1) : segs[q].speaker # label
runsFor(j, key) == {d \in 1..Len(detectLog[j]) : detectLog[j][d].key = key}
callsOf(j, name) == {p \in 1..Len(calls[j]) : calls[j][p].call = name}
genderOfVoice(v) == IF v \in Range(maleVoices) THEN "male" ELSE "female"
C11_DetectOncePerLabel ==
  \A j \in Jobs :
    /\ \A p \in 1..Len(voiceLog[j]) :
         LET label == segments[j][p].speaker IN
         label # "" =>
           /\ Cardinality(runsFor(j, label)) = 1
           /\ \A d \in runsFor(j, label) :
                /\ detectLog[j][d].idx + 1 = firstWith(segments[j], label)
                /\ genderOfVoice(voiceLog[j][p]) = detectLog[j][d].gender
                /\ speakerGender[j][label] = detectLog[j][d].gender
    /\ Cardinality(callsOf(j, "astats")) = Len(detectLog[j])
    /\ pc[j] \notin {"none", "extract", "transcribe"} =>
         Cardinality(callsOf(j, "clip"))
           <= Cardinality(labelsUpTo(segments[j],
                            Min(Len(voiceLog[j]) + 1, Len(segments[j]))))
\* Speaker A has three segments with one of B among them, and one run.
C11_Witness ==
  /\ Len(voiceLog[1]) = 4
  /\ Cardinality({p \in 1..4 : segments[1][p].speaker = "A"}) = 3
  /\ segments[1][1].speaker = "A"
  /\ segments[1][4].speaker = "A"
  /\ Cardinality(runsFor(1, "A")) = 1
  /\ Len(detectLog[1]) = 2

\* C12: when the measurement inside detectGender fails, the speaker gets a
\* gender all the same and dubVideo goes on to the synthesis of the segment:
\* the progress entry is not set to -1, and a job that failed later failed on
\* another call.
astatsRun(j, p) == Cardinality({q \in 1..p : calls[j][q].call = "astats"})
C12_DetectFailureIsCaught ==
  \A j \in Jobs : \A p \in 1..Len(calls[j]) :
    calls[j][p] = [call |-> "astats", ok |-> FALSE] =>
      /\ astatsRun(j, p) <= Len(detectLog[j])
      /\ LET run == detectLog[j][astatsRun(j, p)] IN
           /\ run.gender \in {"male", "female"}
           /\ Has(speakerGender[j], run.key)
           /\ speakerGender[j][run.key] = run.gender
           /\ p = Len(calls[j]) =>
                /\ pc[j] = "speak"
                /\ Len(voiceLog[j]) = run.idx + 1
                /\ genderOfVoice(voiceLog[j][run.idx + 1]) = run.gender
                /\ Has(progressMap, j) /\ progressMap[j] # FAILED
      /\ pc[j] = "failed" =>
           \E q \in (p + 1)..Len(calls[j]) : ~calls[j][q].ok
\* The measurement failed for the second speaker and the job finished.
C12_Witness ==
  /\ pc[1] = "done"
  /\ Len(detectLog[1]) = 2
  /\ ~detectLog[1][2].res.ok
  /\ progressMap[1] = 100

\* C14: every submitted job eventually has a terminal value (100 or -1)
\* written to its progress entry.
C14_JobTerminates ==
  \A j \in Jobs : (pc[j] # "none") ~> ReachedTerminal(j)
\* A job over three segments that failed in its last segment.
C14_Witness ==
  /\ pc[1] = "failed"
  /\ Len(segments[1]) = 3
  /\ i[1] = 2
  /\ Last(written[1]) = FAILED

\* C15: the stages of a job settle in the order extract, transcribe, one
\* synthesis per segment in transcription order, concatenate, remix, each once
\* and each only after the one before it succeeded; concatAudio is called only
\* after the speech clip of the last segment was appended, and the output path
\* is recorded only after the remix succeeded.
IsStage(c) == c.call \in {"extract", "transcribe", "speak", "concat", "remix"}
stageNames(j) == [p \in 1..Len(SelectSeq(calls[j], IsStage)) |->
                    SelectSeq(calls[j], IsStage)[p].call]
stagePlan(n) ==
  <<"extract", "transcribe">> \o [p \in 1..n |-> "speak"] \o <<"concat", "remix">>
IsPrefix(a, b) == Len(a) <= Len(b) /\ \A p \in 1..Len(a) : a[p] = b[p]
IsSpoken(f) == f.kind = "spoken"
C15_StageOrder ==
  \A j \in Jobs :
    /\ IsPrefix(stageNames(j), stagePlan(Len(segments[j])))
    /\ \A p \in 1..(Len(calls[j]) - 1) : IsStage(calls[j][p]) => calls[j][p].ok
    /\ SelectSeq(timeline[j], IsSpoken)
         = [p \in 1..Cardinality({q \in callsOf(j, "speak") : calls[j][q].ok}) |->
              spokenFile(j, p - 1)]
    /\ pc[j] = "concat" =>
         /\ i[j] = Len(segments[j])
         /\ Len(SelectSeq(timeline[j], IsSpoken)) = Len(segments[j])
         /\ callsOf(j, "concat") = {}
    /\ pc[j] = "remix" =>
         /\ Cardinality(callsOf(j, "concat")) = 1
         /\ \A p \in callsOf(j, "concat") : calls[j][p].ok
         /\ callsOf(j, "remix") = {}
    /\ (Has(outputMap, j) \/ pc[j] = "done") =>
         /\ Published(j)
         /\ stageNames(j) = stagePlan(Len(segments[j]))
\* A successful run over two segments whose output path is recorded.
C15_Witness ==
  /\ pc[1] = "done"
  /\ Len(segments[1]) = 2
  /\ Has(outputMap, 1)
  /\ stageNames(1) = <<"extract", "transcribe", "speak", "speak", "concat", "remix">>

\* C16: the emotion passed to speak for a segment is energetic exactly when
\* its untranslated text has a "!", firm exactly when it has a "?" and no "!",
\* and neutral exactly when it has neither.
C16_EmotionOfText ==
  \A j \in Jobs : \A p \in 1..Len(emotionLog[j]) :
    LET chars == Range(segments[j][p].text)
        emotion == emotionLog[j][p] IN
    /\ emotion = "energetic" <=> "!" \in chars
    /\ emotion = "firm" <=> ("?" \in chars /\ "!" \notin chars)
    /\ emotion = "neutral" <=> ("?" \notin chars /\ "!" \notin chars)
\* A text with a "?" before a "!" was given the energetic emotion.
C16_Witness ==
  /\ Len(emotionLog[1]) = 1
  /\ segments[1][1].text = <<"?", "!">>
  /\ emotionLog[1][1] = "energetic"

\* C17: the first value written to a job's progress entry is the 0 of the
\* submit handler, before the first write of dubVideo (5); and from the moment
\* the id is returned until dubVideo is over the job has a progress entry, so
\* the progress route reads the entry and not its fallback.
Running(j) == pc[j] \notin {"none", "done", "failed"}
C17_EntryBeforeIdReturned ==
  \A j \in Jobs :
    /\ pc[j] # "none" =>
         /\ Len(written[j]) >= 2
         /\ written[j][1] = 0
         /\ written[j][2] = 5
    /\ Running(j) =>
         /\ Has(progressMap, j)
         /\ readProgress(j) = Last(written[j])
\* A download was tried (404) for a job that is still running.
C17_Witness ==
  /\ pc[1] = "speak"
  /\ Has(progressMap, 1)
  /\ \E r \in Requests : req[r].job = 1 /\ req[r].resp = "404"

\* C18: a step that changes what belongs to one job (its progress and output
\* entries, its position, its transcription and loop state, its speaker
\* genders and rotation indexes, its files) changes nothing that belongs to
\* another job; and the step of a download request changes only the job it
\* names.
JobState(k) ==
  << Has(progressMap, k), readProgress(k),
     Has(outputMap, k), IF Has(outputMap, k) THEN outputMap[k] ELSE NoFile,
     pc[k], segments[k], i[k], lastEnd[k], timeline[k],
     speakerGender[k], speakerIndex[k], written[k], calls[k],
     {f \in files : f.job = k} >>
C18_JobsIsolated ==
  [][/\ \A j \in Jobs :
          JobState(j)' # JobState(j) =>
            \A k \in Jobs \ {j} : JobState(k)' = JobState(k)
     /\ \A r \in Requests :
          req'[r] # req[r] =>
            \A k \in Jobs \ {req'[r].job} : JobState(k)' = JobState(k)]_vars
\* Job 2 was downloaded and retired while job 1, whose speaker has another
\* gender than that of job 2, is still being synthesized.
C18_Witness ==
  /\ pc[1] = "speak"
  /\ pc[2] = "done"
  /\ Delivered(2)
  /\ Has(progressMap, 1) /\ ~Has(progressMap, 2)
  /\ Has(speakerGender[1], "A") /\ Has(speakerGender[2], "A")
  /\ speakerGender[1]["A"] # speakerGender[2]["A"]

\* C19: every run of detectGender whose measurement yields no classification
\* (the analysis call failed, or it returned no RMS value) returns one and
\* the same label.
Unclassified(res) == ~res.ok \/ Len(res.rms) = 0
C19_OneDefaultGender ==
  \A j \in Jobs : \A d, e \in 1..Len(detectLog[j]) :
    (Unclassified(detectLog[j][d].res) /\ Unclassified(detectLog[j][e].res))
      => detectLog[j][d].gender = detectLog[j][e].gender

\* C20: a synthesized segment without a speaker label, at index n, has had
\* exactly one run of detectGender, under the key segment_n and on its own
\* clip, and its voice is the first one of the pool of the gender detected
\* in that run.
syntheticKey(n) == "segment_" \o ToString(n)
C20_UnlabelledOwnKey ==
  \A j \in Jobs : \A p \in 1..Len(voiceLog[j]) :
    segments[j][p].speaker = "" =>
      /\ Cardinality(runsFor(j, syntheticKey(p - 1))) = 1
      /\ \A d \in runsFor(j, syntheticKey(p - 1)) :
           /\ detectLog[j][d].idx = p - 1
           /\ voiceLog[j][p] = poolOf(detectLog[j][d].gender)[1]
           /\ speakerGender[j][syntheticKey(p - 1)] = detectLog[j][d].gender
\* Three unlabelled segments in a row, each detected on its own, all given
\* the first female voice.
C20_Witness ==
  /\ Len(voiceLog[1]) = 3
  /\ \A p \in 1..3 : segments[1][p].speaker = "" /\ voiceLog[1][p] = femaleVoices[1]
  /\ Len(detectLog[1]) = 3

====
